---- MODULE Spec2Model ----
(***************************************************************************)
(* Model of vex/package.py: the product-tree index (build_product_tree,    *)
(* product_lookup) and the remediation / product-status classifier         *)
(* (parse_packages with the Fix, WontFix, Affected and NotAffected         *)
(* constructors).                                                          *)
(*                                                                         *)
(* A Python str is a sequence of atoms (short TLA+ strings); the separator *)
(* atoms ":" and "/" never occur inside another atom, so str.split, join   *)
(* and the `in` substring test are computed on the sequence.               *)
(***************************************************************************)
EXTENDS Integers, Sequences, FiniteSets, TLC

VARIABLES raw, pc, err, pmap, fixes, workarounds, wontfix, affected,
          not_affected, ki, ri, si

vars == <<raw, pc, err, pmap, fixes, workarounds, wontfix, affected,
          not_affected, ki, ri, si>>

buckets == <<fixes, workarounds, wontfix, affected, not_affected>>

\* ------------------------------------------------------------ bounds
MaxDepth == 4
MaxSegs == 4
MaxIds == 2

\* ------------------------------------------------------------ Python values
\* None, and an attribute that was never assigned (reading it raises
\* AttributeError).  Names are TLA+ strings, ids are atom sequences.
None == "<None>"
Unset == "<unset>"
NoneStr == <<"<None>">>

COLON == ":"
SLASH == "/"

\* ------------------------------------------------------------ str helpers
Contains(s, a) == \E i \in 1..Len(s) : s[i] = a

FirstIndex(s, a) == CHOOSE i \in 1..Len(s) : s[i] = a /\ \A j \in 1..(i-1) : s[j] # a

RECURSIVE Split(_, _)
Split(s, sep) ==
    IF ~Contains(s, sep) THEN <<s>>
    ELSE LET i == FirstIndex(s, sep)
         IN  <<SubSeq(s, 1, i-1)>> \o Split(SubSeq(s, i+1, Len(s)), sep)

RECURSIVE Join(_, _)
Join(segs, sep) ==
    IF segs = <<>> THEN <<>>
    ELSE IF Len(segs) = 1 THEN segs[1]
    ELSE segs[1] \o <<sep>> \o Join(Tail(segs), sep)

Last(s) == s[Len(s)]

\* ------------------------------------------------------------ vex/constants.py
\* VENDOR_ADVISORY: marker -> vendor name, in the dict's iteration order.
VENDOR_ADVISORY ==
    << [marker |-> "RHSA", vendor |-> "Red Hat"],
       [marker |-> "GLSA", vendor |-> "Gentoo"] >>

\* An identifier is source/arch-only noise when a component segment (any
\* segment after the product id) carries the ".src" marker.
IsNoise(y) ==
    LET t == Split(y, COLON)
    IN  \E i \in 2..Len(t) : Contains(t[i], ".src")

filter_components(ids) == SelectSeq(ids, LAMBDA y : ~IsNoise(y))

\* ------------------------------------------------------------ product_lookup
RECURSIVE product_lookup(_, _)
product_lookup(product, pm) ==
    IF pm = <<>> THEN None
    ELSE IF Head(pm).id = product THEN Head(pm).name
    ELSE product_lookup(product, Tail(pm))

\* ------------------------------------------------------------ product tree
\* A branch node; hasBranches / hasCategory say whether the key is present.
Node(cat, hasCat, nm, pid, hasBr, brs) ==
    [category |-> cat, hasCategory |-> hasCat, name |-> nm, product_id |-> pid,
     hasBranches |-> hasBr, branches |-> brs]

Leaf(pid, nm) == Node("product_name", TRUE, nm, pid, FALSE, <<>>)
Group(brs) == Node("vendor", TRUE, "group", <<>>, TRUE, brs)
Bare == Node("vendor", TRUE, "group", <<>>, FALSE, <<>>)
NoCat == Node("", FALSE, "anon", <<>>, FALSE, <<>>)

LeafW == Leaf(<<"WID1">>, "Widget 1.0")
LeafV == Leaf(<<"VID2">>, "Vidget 2.0")

RECURSIVE Nest(_, _)
Nest(n, d) == IF d = 0 THEN n ELSE Group(<<Nest(n, d - 1)>>)

\* build_product_tree, lines 99-104: the third-level nodes of one b.
RECURSIVE IndexLevel3(_)
IndexLevel3(cs) ==
    IF cs = <<>> THEN <<>>
    ELSE LET c == Head(cs)
         IN  (IF c.hasCategory /\ c.category = "product_name"
                 THEN << [id |-> c.product_id, name |-> c.name] >>
                 ELSE <<>>) \o IndexLevel3(Tail(cs))

\* lines 97-98: the second-level nodes of one p.
RECURSIVE IndexLevel2(_)
IndexLevel2(bs) ==
    IF bs = <<>> THEN <<>>
    ELSE LET b == Head(bs)
         IN  (IF b.hasBranches THEN IndexLevel3(b.branches) ELSE <<>>)
             \o IndexLevel2(Tail(bs))

\* lines 95-97: p['branches'] raises KeyError when the key is absent.
RECURSIVE IndexLevel1(_)
IndexLevel1(ps) ==
    IF ps = <<>> THEN [ok |-> TRUE, pmap |-> <<>>]
    ELSE LET p == Head(ps)
         IN  IF ~p.hasBranches THEN [ok |-> FALSE, pmap |-> <<>>]
             ELSE LET rest == IndexLevel1(Tail(ps))
                  IN  IF ~rest.ok THEN rest
                      ELSE [ok |-> TRUE,
                            pmap |-> IndexLevel2(p.branches) \o rest.pmap]

build_product_tree(tree) == IndexLevel1(tree)

\* ------------------------------------------------------------ Fix
\* Fix.__init__, lines 25-32: the loop over VENDOR_ADVISORY; st carries the
\* attributes id and vendor as assigned so far.
RECURSIVE FixAdvisory(_, _, _)
FixAdvisory(vs, url, st) ==
    IF vs = <<>> THEN st
    ELSE LET v == Head(vs).marker
             vend == Head(vs).vendor
             id0 == Last(Split(url, SLASH))
         IN  IF Contains(url, v)
               THEN FixAdvisory(Tail(vs), url,
                        [id |-> IF vend = "Gentoo" THEN <<v, "-">> \o id0 ELSE id0,
                         vendor |-> vend])
               ELSE FixAdvisory(Tail(vs), url, st)

\* Fix.__init__, lines 34-37: the three-name unpacking raises ValueError
\* unless y splits into exactly three segments.
RECURSIVE FixComponents(_, _, _)
FixComponents(ys, pm, st) ==
    IF ys = <<>> THEN st
    ELSE LET t == Split(Head(ys), COLON)
         IN  IF Len(t) # 3 THEN [st EXCEPT !.ok = FALSE]
             ELSE FixComponents(Tail(ys), pm,
                      [ok |-> TRUE,
                       components |-> Append(st.components, Join(<<t[2], t[3]>>, COLON)),
                       product |-> product_lookup(t[1], pm)])

Fix(x, pm) ==
    LET adv == FixAdvisory(VENDOR_ADVISORY, x.url, [id |-> NoneStr, vendor |-> Unset])
        cmp == FixComponents(filter_components(x.product_ids), pm,
                             [ok |-> TRUE, components |-> <<>>, product |-> Unset])
    IN  [ok |-> cmp.ok,
         rec |-> [id |-> adv.id, url |-> x.url, vendor |-> adv.vendor,
                  components |-> cmp.components, product |-> cmp.product]]

\* ------------------------------------------------------------ WontFix
\* WontFix.__init__, lines 48-50: the two-name unpacking raises ValueError
\* unless y splits into exactly two segments.
WontFix(y, x, pm) ==
    LET t == Split(y, COLON)
    IN  IF Len(t) # 2 THEN [ok |-> FALSE, rec |-> <<>>]
        ELSE [ok |-> TRUE,
              rec |-> [reason |-> x.details, component |-> t[2],
                       product |-> product_lookup(t[1], pm)]]

\* parse_packages, lines 131-132: one WontFix per product id, unfiltered;
\* recs are the records appended before the loop ended or raised.
RECURSIVE WontFixAll(_, _, _)
WontFixAll(ys, x, pm) ==
    IF ys = <<>> THEN [ok |-> TRUE, recs |-> <<>>]
    ELSE LET w == WontFix(Head(ys), x, pm)
         IN  IF ~w.ok THEN [ok |-> FALSE, recs |-> <<>>]
             ELSE LET rest == WontFixAll(Tail(ys), x, pm)
                  IN  [ok |-> rest.ok, recs |-> <<w.rec>> \o rest.recs]

\* ------------------------------------------------------------ NotAffected, Affected
NotAffected(y, pm) ==
    LET t == Split(y, COLON)
    IN  [components |-> << Join(Tail(t), COLON) >>,
         product |-> product_lookup(t[1], pm)]

\* Affected with the component cut at its first colon.
AffectedFirstSegmentOnly(y, pm) ==
    LET t == Split(y, COLON)
    IN  [components |-> << Join(SubSeq(t, 2, 2), COLON) >>,
         product |-> product_lookup(t[1], pm)]

Affected(y, pm) ==
    LET t == Split(y, COLON)
    IN  [components |-> << Join(Tail(t), COLON) >>,
         product |-> product_lookup(t[1], pm)]

\* parse_packages, lines 137-138 and 140-141: one record per surviving id.
AffectedAll(ids, pm) ==
    LET ys == filter_components(ids)
    IN  [i \in 1..Len(ys) |-> Affected(ys[i], pm)]

NotAffectedAll(ids, pm) ==
    LET ys == filter_components(ids)
    IN  [i \in 1..Len(ys) |-> NotAffected(ys[i], pm)]

\* k['product_status'][key]: the value stored under key.
StatusIds(ps, key) ==
    LET i == CHOOSE j \in 1..Len(ps) : ps[j].key = key
    IN  ps[i].ids

\* ------------------------------------------------------------ inputs
SegName == <<"widget", "1.0", "e3", "e4", "e5", "e6">>

\* The identifier p:widget:1.0:... of n colon-separated segments.
Ident(p, n) == Join(<< <<p>> >> \o [i \in 1..(n - 1) |-> <<SegName[i]>>], COLON)

SrcIdent == <<"WID1", COLON, "widget", COLON, "1.0", ".src">>

IdPool ==
    { <<>>, SrcIdent }
    \cup { Ident(p, n) : p \in {"WID1", "UNKNOWN"}, n \in 1..MaxSegs }

RECURSIVE SeqsUpTo(_, _)
SeqsUpTo(S, n) ==
    IF n = 0 THEN { <<>> }
    ELSE LET shorter == SeqsUpTo(S, n - 1)
         IN  shorter \cup { Append(s, x) : s \in shorter, x \in S }

IdLists == SeqsUpTo(IdPool, MaxIds)

SmallLists == { <<>>, <<Ident("WID1", 3)>>, <<SrcIdent>> }

UrlRH == <<"errata", SLASH, "RHSA", "-2024-0001">>
UrlGentoo == <<"GLSA", SLASH, "202402-01">>
UrlBoth == <<"GLSA", SLASH, "RHSA", "-2024-0001">>
UrlNone == <<"example.org", SLASH, "adv-1">>
Urls == { UrlRH, UrlGentoo, UrlBoth, UrlNone }

Rem(cat, url, ids) ==
    [category |-> cat, url |-> url, details |-> "out of support scope",
     product_ids |-> ids]

Entry(hasRem, rems, hasPS, ps) ==
    [hasRemediations |-> hasRem, remediations |-> rems,
     hasProductStatus |-> hasPS, product_status |-> ps]

StatusPair(key, ids) == [key |-> key, ids |-> ids]

\* One entry holding one remediation or one status key, over every id list.
BigEntries ==
    { Entry(TRUE, <<Rem(c, UrlRH, ids)>>, FALSE, <<>>) :
          c \in {"vendor_fix", "no_fix_planned"}, ids \in IdLists }
    \cup { Entry(FALSE, <<>>, TRUE, <<StatusPair(key, ids)>>) :
          key \in {"known_affected", "known_not_affected"}, ids \in IdLists }

SmallRems ==
    { Rem("vendor_fix", u, ids) : u \in Urls, ids \in SmallLists }
    \cup { Rem("workaround", UrlNone, ids) : ids \in SmallLists }
    \cup { Rem("no_fix_planned", UrlNone, ids) : ids \in { <<>>, <<Ident("WID1", 2)>> } }
    \cup { Rem("none_available", UrlNone, <<>>) }

TwoRems ==
    { <<Rem("vendor_fix", UrlRH, <<Ident("WID1", 3)>>), x>> : x \in SmallRems }
    \cup { <<Rem("workaround", UrlNone, <<>>), Rem("vendor_fix", UrlGentoo, <<Ident("UNKNOWN", 3)>>)>> }

SmallStatus ==
    { <<>>,
      <<StatusPair("fixed", <<Ident("WID1", 3)>>)>>,
      <<StatusPair("known_affected", <<Ident("WID1", 3), SrcIdent>>),
        StatusPair("known_not_affected", <<Ident("UNKNOWN", 2)>>)>>,
      <<StatusPair("known_not_affected", <<Ident("WID1", 3)>>),
        StatusPair("under_investigation", <<Ident("WID1", 1)>>),
        StatusPair("known_affected", <<Ident("WID1", 1)>>)>> }

SmallEntries ==
    { Entry(TRUE, <<x>>, FALSE, <<>>) : x \in SmallRems }
    \cup { Entry(TRUE, xs, TRUE, ps) : xs \in TwoRems \cup { <<>> }, ps \in SmallStatus }
    \cup { Entry(FALSE, <<>>, TRUE, ps) : ps \in SmallStatus }
    \cup { Entry(FALSE, <<>>, FALSE, <<>>) }

PairEntries ==
    { Entry(FALSE, <<>>, FALSE, <<>>),
      Entry(TRUE, <<Rem("vendor_fix", UrlRH, <<Ident("WID1", 3)>>)>>, TRUE,
            <<StatusPair("known_not_affected", <<Ident("WID1", 3)>>)>>),
      Entry(TRUE, <<Rem("no_fix_planned", UrlNone, <<Ident("WID1", 3)>>)>>, TRUE,
            <<StatusPair("known_affected", <<Ident("WID1", 2)>>)>>) }

SmallVulns ==
    { <<>> } \cup { <<e>> : e \in SmallEntries }
    \cup { <<e1, e2>> : e1 \in PairEntries, e2 \in PairEntries }

BigVulns == { <<e>> : e \in BigEntries }

Canon == <<Nest(LeafW, 2)>>

Trees ==
    { <<Nest(LeafW, d)>> : d \in 0..(MaxDepth - 1) }
    \cup { <<>>,
           <<Group(<<Group(<<LeafW, LeafV>>)>>)>>,
           <<Group(<<Group(<<LeafW>>), Bare>>)>>,
           <<Group(<<Group(<<LeafW>>)>>), Bare>>,
           <<Bare, Group(<<Group(<<LeafW>>)>>)>>,
           <<Group(<<Group(<<NoCat, LeafW>>)>>)>>,
           <<Group(<<Group(<<LeafW>>)>>), Group(<<LeafV>>)>> }

Documents ==
    [product_tree : Trees, vulnerabilities : SmallVulns]
    \cup [product_tree : { Canon }, vulnerabilities : BigVulns]

Init ==
    /\ raw \in Documents
    /\ pc = "build"
    /\ err = ""
    /\ pmap = <<>>
    /\ fixes = <<>> /\ workarounds = <<>> /\ wontfix = <<>>
    /\ affected = <<>> /\ not_affected = <<>>
    /\ ki = 0 /\ ri = 0 /\ si = 0

BuildProductTree ==
    /\ pc = "build"
    /\ LET r == build_product_tree(raw.product_tree)
       IN  IF r.ok
             THEN pmap' = r.pmap /\ pc' = "parse" /\ err' = err
             ELSE pmap' = pmap /\ pc' = "error" /\ err' = "KeyError"
    /\ UNCHANGED <<raw, buckets, ki, ri, si>>

\* lines 109-113
ParseInit ==
    /\ pc = "parse"
    /\ fixes' = <<>> /\ workarounds' = <<>> /\ wontfix' = <<>>
    /\ affected' = <<>> /\ not_affected' = <<>>
    /\ ki' = 1 /\ pc' = "entry"
    /\ UNCHANGED <<raw, err, pmap, ri, si>>

CurEntry == raw.vulnerabilities[ki]
CurRem == CurEntry.remediations[ri]
CurStatus == CurEntry.product_status[si]

\* line 115, the loop is exhausted: parse_packages returns.
Finish ==
    /\ pc = "entry" /\ ki > Len(raw.vulnerabilities)
    /\ pc' = "done"
    /\ UNCHANGED <<raw, err, pmap, buckets, ki, ri, si>>

\* lines 115-117
NextEntry ==
    /\ pc = "entry" /\ ki <= Len(raw.vulnerabilities)
    /\ IF CurEntry.hasRemediations
         THEN pc' = "rem" /\ ri' = 1
         ELSE pc' = "ps" /\ ri' = ri
    /\ UNCHANGED <<raw, err, pmap, buckets, ki, si>>

\* lines 118-119
RemVendorFix ==
    /\ pc = "rem" /\ ri <= Len(CurEntry.remediations)
    /\ CurRem.category = "vendor_fix"
    /\ LET f == Fix(CurRem, pmap)
       IN  IF f.ok
             THEN fixes' = Append(fixes, f.rec) /\ ri' = ri + 1
                  /\ UNCHANGED <<pc, err>>
             ELSE pc' = "error" /\ err' = "ValueError"
                  /\ UNCHANGED <<fixes, ri>>
    /\ UNCHANGED <<raw, pmap, workarounds, wontfix, affected, not_affected, ki, si>>

\* lines 121-126
RemWorkaround ==
    /\ pc = "rem" /\ ri <= Len(CurEntry.remediations)
    /\ CurRem.category = "workaround"
    /\ workarounds' = Append(workarounds,
                             [details |-> CurRem.details,
                              packages |-> filter_components(CurRem.product_ids)])
    /\ ri' = ri + 1
    /\ UNCHANGED <<raw, pc, err, pmap, fixes, wontfix, affected, not_affected, ki, si>>

\* lines 128-132
RemNoFixPlanned ==
    /\ pc = "rem" /\ ri <= Len(CurEntry.remediations)
    /\ CurRem.category = "no_fix_planned"
    /\ LET w == WontFixAll(CurRem.product_ids, CurRem, pmap)
       IN  IF w.ok
             THEN wontfix' = wontfix \o w.recs /\ ri' = ri + 1
                  /\ UNCHANGED <<pc, err>>
             ELSE wontfix' = wontfix \o w.recs /\ pc' = "error"
                  /\ err' = "ValueError" /\ ri' = ri
    /\ UNCHANGED <<raw, pmap, fixes, workarounds, affected, not_affected, ki, si>>

\* lines 118-128: a category none of the three tests matches.
RemOther ==
    /\ pc = "rem" /\ ri <= Len(CurEntry.remediations)
    /\ CurRem.category \notin {"vendor_fix", "workaround", "no_fix_planned"}
    /\ ri' = ri + 1
    /\ UNCHANGED <<raw, pc, err, pmap, buckets, ki, si>>

\* line 117, the loop over k['remediations'] is exhausted.
RemEnd ==
    /\ pc = "rem" /\ ri > Len(CurEntry.remediations)
    /\ pc' = "ps"
    /\ UNCHANGED <<raw, err, pmap, buckets, ki, ri, si>>

\* lines 134-135
EnterStatus ==
    /\ pc = "ps"
    /\ IF CurEntry.hasProductStatus
         THEN pc' = "status" /\ si' = 1 /\ ki' = ki
         ELSE pc' = "entry" /\ ki' = ki + 1 /\ si' = si
    /\ UNCHANGED <<raw, err, pmap, buckets, ri>>

\* lines 136-138
StatusKnownAffected ==
    /\ pc = "status" /\ si <= Len(CurEntry.product_status)
    /\ CurStatus.key = "known_affected"
    /\ affected' = affected
           \o AffectedAll(StatusIds(CurEntry.product_status, "known_affected"), pmap)
    /\ si' = si + 1
    /\ UNCHANGED <<raw, pc, err, pmap, fixes, workarounds, wontfix, not_affected, ki, ri>>

\* lines 139-141
StatusKnownNotAffected ==
    /\ pc = "status" /\ si <= Len(CurEntry.product_status)
    /\ CurStatus.key = "known_not_affected"
    /\ not_affected' = not_affected
           \o NotAffectedAll(StatusIds(CurEntry.product_status, "known_not_affected"), pmap)
    /\ si' = si + 1
    /\ UNCHANGED <<raw, pc, err, pmap, fixes, workarounds, wontfix, affected, ki, ri>>

\* lines 135-139: a status key neither test matches.
StatusOther ==
    /\ pc = "status" /\ si <= Len(CurEntry.product_status)
    /\ CurStatus.key \notin {"known_affected", "known_not_affected"}
    /\ si' = si + 1
    /\ UNCHANGED <<raw, pc, err, pmap, buckets, ki, ri>>

\* line 135, the loop over the status keys is exhausted.
StatusEnd ==
    /\ pc = "status" /\ si > Len(CurEntry.product_status)
    /\ pc' = "entry" /\ ki' = ki + 1
    /\ UNCHANGED <<raw, err, pmap, buckets, ri, si>>

\* ------------------------------------------------------------ reference notions
\* What the claims speak of, defined without the constructors above.
Count(s, e) == Cardinality({ i \in 1..Len(s) : s[i] = e })

SameEntries(a, b) ==
    /\ \A i \in 1..Len(a) : Count(a, a[i]) = Count(b, a[i])
    /\ \A i \in 1..Len(b) : Count(a, b[i]) = Count(b, b[i])

\* Every product_name node of a branch list, at any depth.
RECURSIVE AllProducts(_)
AllProducts(nodes) ==
    IF nodes = <<>> THEN <<>>
    ELSE LET n == Head(nodes)
         IN  (IF n.hasCategory /\ n.category = "product_name"
                 THEN << [id |-> n.product_id, name |-> n.name] >> ELSE <<>>)
             \o (IF n.hasBranches THEN AllProducts(n.branches) ELSE <<>>)
             \o AllProducts(Tail(nodes))

\* The number of colon-separated segments, and the text before / after the
\* first colon.
NumColons(y) == Cardinality({ i \in 1..Len(y) : y[i] = COLON })
NumSegments(y) == NumColons(y) + 1
ProductOf(y) == IF Contains(y, COLON) THEN SubSeq(y, 1, FirstIndex(y, COLON) - 1) ELSE y
ComponentOf(y) ==
    IF Contains(y, COLON) THEN SubSeq(y, FirstIndex(y, COLON) + 1, Len(y)) ELSE <<>>
WellFormed(y) == NumSegments(y) >= 2

Resolvable(p, pm) == \E i \in 1..Len(pm) : pm[i].id = p
Resolve(p, pm) ==
    IF Resolvable(p, pm)
      THEN pm[CHOOSE i \in 1..Len(pm) :
                  pm[i].id = p /\ \A j \in 1..(i - 1) : pm[j].id # p].name
      ELSE None

AllOf(s, P(_)) == \A i \in 1..Len(s) : P(s[i])

AtRem(cat) == pc = "rem" /\ ri <= Len(CurEntry.remediations) /\ CurRem.category = cat
AtStatus == pc = "status" /\ si <= Len(CurEntry.product_status)
Survivors == filter_components(CurRem.product_ids)
StatusSurvivors == filter_components(CurStatus.ids)

StatusRecords(ys, pm) ==
    [i \in 1..Len(ys) |->
        [components |-> << ComponentOf(ys[i]) >>, product |-> Resolve(ProductOf(ys[i]), pm)]]

\* ------------------------------------------------------------ claims

\* C1: after build_product_tree, pmap holds exactly one entry (product_id ->
\* name) for every product_name node of the tree, at whatever depth the node
\* lies, and nothing else.
C1_IndexEveryDepth ==
    pc # "build" =>
        /\ err # "KeyError"
        /\ SameEntries(pmap, AllProducts(raw.product_tree))

\* C2: a record built from an identifier of k >= 2 segments has its product
\* resolved from the first segment and its component equal to the rest of
\* the identifier, in the Fix, WontFix, Affected and NotAffected variants.
C2_ComponentIsRest ==
    [][ /\ (AtRem("vendor_fix") /\ AllOf(Survivors, WellFormed)) =>
            /\ pc' # "error"
            /\ Len(fixes') = Len(fixes) + 1
            /\ Last(fixes').components =
                   [i \in 1..Len(Survivors) |-> ComponentOf(Survivors[i])]
            /\ Survivors # <<>> =>
                   Last(fixes').product = Resolve(ProductOf(Last(Survivors)), pmap)
        /\ (AtRem("no_fix_planned") /\ AllOf(CurRem.product_ids, WellFormed)) =>
            /\ pc' # "error"
            /\ wontfix' = wontfix \o
                   [i \in 1..Len(CurRem.product_ids) |->
                       [reason |-> CurRem.details,
                        component |-> ComponentOf(CurRem.product_ids[i]),
                        product |-> Resolve(ProductOf(CurRem.product_ids[i]), pmap)]]
        /\ (AtStatus /\ CurStatus.key = "known_affected"
                /\ AllOf(StatusSurvivors, WellFormed)) =>
            affected' = affected \o StatusRecords(StatusSurvivors, pmap)
        /\ (AtStatus /\ CurStatus.key = "known_not_affected"
                /\ AllOf(StatusSurvivors, WellFormed)) =>
            not_affected' = not_affected \o StatusRecords(StatusSurvivors, pmap)
      ]_vars

\* The identifiers the classifier reaches in one entry.
ReachedIds(e) ==
    { y \in UNION { { x.product_ids[i] : i \in 1..Len(x.product_ids) } :
                    x \in { e.remediations[j] : j \in 1..Len(e.remediations) } } :
        \E j \in 1..Len(e.remediations) :
            LET x == e.remediations[j]
            IN  \/ /\ x.category = "vendor_fix"
                   /\ \E i \in 1..Len(filter_components(x.product_ids)) :
                          filter_components(x.product_ids)[i] = y
                \/ /\ x.category = "no_fix_planned"
                   /\ \E i \in 1..Len(x.product_ids) : x.product_ids[i] = y }
    \cup
    { y \in UNION { { q.ids[i] : i \in 1..Len(q.ids) } :
                    q \in { e.product_status[j] : j \in 1..Len(e.product_status) } } :
        \E j \in 1..Len(e.product_status) :
            LET q == e.product_status[j]
            IN  /\ q.key \in {"known_affected", "known_not_affected"}
                /\ \E i \in 1..Len(filter_components(q.ids)) :
                       filter_components(q.ids)[i] = y }

MalformedReached ==
    \E k \in 1..Len(raw.vulnerabilities) :
        \E y \in ReachedIds(raw.vulnerabilities[k]) : ~WellFormed(y)

\* C3: when classification reaches an identifier of zero or one segment,
\* parse_packages ends in an error: it never returns its buckets.
C3_MalformedIsFatal == MalformedReached => pc # "done"

UnknownProduct(y) == ~Resolvable(ProductOf(y), pmap)

\* C4: a well-formed identifier whose product id is absent from the index
\* is classified without error, and its bucket holds its record with the
\* product set to what product_lookup returns for an absent id.
C4_UnresolvedIsRecorded ==
    [][ /\ (AtRem("vendor_fix") /\ AllOf(Survivors, WellFormed)
                /\ \E i \in 1..Len(Survivors) : UnknownProduct(Survivors[i])) =>
            /\ pc' # "error"
            /\ Len(fixes') = Len(fixes) + 1
            /\ Last(fixes').product = None
        /\ (AtRem("no_fix_planned") /\ AllOf(CurRem.product_ids, WellFormed)
                /\ \E i \in 1..Len(CurRem.product_ids) :
                       UnknownProduct(CurRem.product_ids[i])) =>
            /\ pc' # "error"
            /\ Len(wontfix') = Len(wontfix) + Len(CurRem.product_ids)
            /\ \A i \in 1..Len(CurRem.product_ids) :
                   UnknownProduct(CurRem.product_ids[i]) =>
                       wontfix'[Len(wontfix) + i].product = None
        /\ (AtStatus /\ CurStatus.key = "known_affected"
                /\ AllOf(StatusSurvivors, WellFormed)) =>
            /\ Len(affected') = Len(affected) + Len(StatusSurvivors)
            /\ \A i \in 1..Len(StatusSurvivors) :
                   UnknownProduct(StatusSurvivors[i]) =>
                       affected'[Len(affected) + i].product = None
        /\ (AtStatus /\ CurStatus.key = "known_not_affected"
                /\ AllOf(StatusSurvivors, WellFormed)) =>
            /\ Len(not_affected') = Len(not_affected) + Len(StatusSurvivors)
            /\ \A i \in 1..Len(StatusSurvivors) :
                   UnknownProduct(StatusSurvivors[i]) =>
                       not_affected'[Len(not_affected) + i].product = None
      ]_vars

TwoOrThree(y) == NumSegments(y) \in {2, 3}

\* C5: a no_fix_planned remediation whose n product ids have 2 or 3
\* segments appends exactly n WontFix records, in order and unfiltered, each
\* with the remediation's details as reason, the product resolved from the
\* first segment and the component equal to the rest.
C5_OneWontFixPerId ==
    [][ (AtRem("no_fix_planned") /\ AllOf(CurRem.product_ids, TwoOrThree)) =>
            /\ pc' # "error"
            /\ wontfix' = wontfix \o
                   [i \in 1..Len(CurRem.product_ids) |->
                       [reason |-> CurRem.details,
                        component |-> ComponentOf(CurRem.product_ids[i]),
                        product |-> Resolve(ProductOf(CurRem.product_ids[i]), pmap)]]
      ]_vars

\* The index of the third-level product_name nodes, a node without
\* `branches` contributing nothing.
RECURSIVE TolerantIndex(_)
TolerantIndex(ps) ==
    IF ps = <<>> THEN <<>>
    ELSE (IF Head(ps).hasBranches THEN IndexLevel2(Head(ps).branches) ELSE <<>>)
         \o TolerantIndex(Tail(ps))

\* C6: a missing `remediations`, `product_status` or `branches` key is
\* never an error: construction goes on, the node or entry without the key
\* contributes nothing, and every other node and entry is processed.
C6_MissingKeyIsNoError ==
    /\ err # "KeyError"
    /\ pc # "build" => pmap = TolerantIndex(raw.product_tree)

MarkersIn(url) ==
    { i \in 1..Len(VENDOR_ADVISORY) : Contains(url, VENDOR_ADVISORY[i].marker) }

\* C7: a Fix record's id is the final '/'-separated segment of the URL,
\* whether or not the URL holds a known marker; with a marker the vendor is
\* the name mapped to it, and for Gentoo the id is the marker, a hyphen and
\* the final segment, prefixed once.
C7_IdIsFinalSegment ==
    \A n \in 1..Len(fixes) :
        LET f == fixes[n]
            tail == Last(Split(f.url, SLASH))
        IN  IF MarkersIn(f.url) = {} THEN f.id = tail
            ELSE \E i \in MarkersIn(f.url) :
                    /\ f.vendor = VENDOR_ADVISORY[i].vendor
                    /\ f.id = IF f.vendor = "Gentoo"
                                THEN <<VENDOR_ADVISORY[i].marker, "-">> \o tail
                                ELSE tail

\* C8: parse_packages appends exactly one Fix record per vendor_fix
\* remediation, whose components are the component specs of the identifiers
\* that survive filter_components, in order.
C8_OneFixPerRemediation ==
    [][ (AtRem("vendor_fix") /\ AllOf(Survivors, WellFormed)) =>
            /\ pc' # "error"
            /\ Len(fixes') = Len(fixes) + 1
            /\ SubSeq(fixes', 1, Len(fixes)) = fixes
            /\ Last(fixes').components =
                   [i \in 1..Len(Survivors) |-> ComponentOf(Survivors[i])]
      ]_vars

\* C9: in the product_status section, every surviving identifier of
\* known_affected yields one Affected record and every surviving identifier
\* of known_not_affected one NotAffected record, appended in list order with
\* the product resolved from the first segment and the single component
\* spec; any other status key adds no record and raises no error.
C9_StatusRecords ==
    [][ AtStatus =>
            /\ pc' = "status" /\ err' = err /\ si' = si + 1
            /\ fixes' = fixes /\ workarounds' = workarounds /\ wontfix' = wontfix
            /\ affected' = IF CurStatus.key = "known_affected"
                             THEN affected \o StatusRecords(StatusSurvivors, pmap)
                             ELSE affected
            /\ not_affected' = IF CurStatus.key = "known_not_affected"
                                 THEN not_affected \o StatusRecords(StatusSurvivors, pmap)
                                 ELSE not_affected
      ]_vars

\* C9 witness: a status section was walked with the one-leaf index; the
\* known_affected list (one survivor, one source artifact) gave one Affected
\* record and the known_not_affected list one record of an unknown product.
C9_Witness ==
    /\ pc = "status" /\ si = 3
    /\ CurEntry.product_status[1].key = "known_affected"
    /\ Len(CurEntry.product_status[1].ids) = 2
    /\ Len(affected) = 1
    /\ affected[1].product = "Widget 1.0"
    /\ affected[1].components = << <<"widget", COLON, "1.0">> >>
    /\ Len(not_affected) = 1
    /\ not_affected[1].product = None

\* C10: every Fix record in fixes has its id, vendor, product and
\* components attributes defined, also when the URL holds no marker and
\* when no identifier survives the filter.
C10_FixFieldsDefined ==
    \A n \in 1..Len(fixes) :
        /\ fixes[n].vendor # Unset
        /\ fixes[n].product # Unset

Next ==
    \/ BuildProductTree
    \/ ParseInit
    \/ Finish
    \/ NextEntry
    \/ RemVendorFix
    \/ RemWorkaround
    \/ RemNoFixPlanned
    \/ RemOther
    \/ RemEnd
    \/ EnterStatus
    \/ StatusKnownAffected
    \/ StatusKnownNotAffected
    \/ StatusOther
    \/ StatusEnd

Spec == Init /\ [][Next]_vars
====
